---- MODULE Spec2Model ----
(***************************************************************************)
(* Model of ollama-server/fine-tuning/scripts/prepare-email-data.py: the   *)
(* EmailDataPreparer methods and the main driver.                          *)
(*                                                                         *)
(* A Python str is a sequence of one-character strings, so that the        *)
(* regular expressions, str.strip, str.startswith, slicing and len are     *)
(* computed character by character.  The Python value None is the          *)
(* sentinel None, which is no character sequence.                          *)
(***************************************************************************)
EXTENDS Integers, Sequences, FiniteSets, Bags, TLC

VARIABLES
    \* main(): the driver
    pc, min_emails, format, conn, cursor, emails, examples, files,
    exit_status, log, query_raised, exc, stats,
    \* a direct call of clean_email_text, and a second call on its result
    text, cleaned, recleaned, clean_pc,
    \* a direct call of extract_context
    arg_email, ret_context, context_pc,
    \* a direct call of split_dataset: the list as passed, the list object
    \* afterwards, the ratio in steps of 1/RatioSteps, and the two results
    split_given, split_list, split_ratio, split_train, split_val, split_pc,
    \* a direct call of create_alpaca_format and of create_chat_format
    format_given, alpaca_examples, chat_examples, format_pc,
    \* evaluate-model.py: the adapter directory's training_config.json, the
    \* arguments, the evaluator's fields and the position in main()
    config, arg_base_model, use_4bit, base_model, model, eval_pc, eval_exc,
    eval_exit_status

driverVars == <<pc, min_emails, format, conn, cursor, emails, examples, files,
                exit_status, log, query_raised, exc, stats>>
cleanVars == <<text, cleaned, recleaned, clean_pc>>
contextVars == <<arg_email, ret_context, context_pc>>
splitVars == <<split_given, split_list, split_ratio, split_train, split_val,
               split_pc>>
formatVars == <<format_given, alpaca_examples, chat_examples, format_pc>>
evalVars == <<config, arg_base_model, use_4bit, base_model, model, eval_pc,
              eval_exc, eval_exit_status>>
callVars == <<cleanVars, contextVars, splitVars, formatVars, evalVars>>
vars == <<driverVars, callVars>>

----------------------------------------------------------------------------
(* Python values *)

None == <<"None">>

\* `not x` for a str or None
Falsy(x) == x = None \/ x = <<>>

NL == "\n"

\* str.isspace for one character: what \s matches and str.strip removes
IsSpace(c) == c \in {" ", "\t", "\n", "\r"}

Repeat(c, n) == [i \in 1..n |-> c]

RECURSIVE Concat(_)
Concat(ss) == IF ss = <<>> THEN <<>> ELSE Head(ss) \o Concat(Tail(ss))

\* s[i:] and s[:i] for 0 <= i
SliceFrom(s, i) == IF i >= Len(s) THEN <<>> ELSE SubSeq(s, i + 1, Len(s))
SliceTo(s, i) == IF i >= Len(s) THEN s ELSE SubSeq(s, 1, i)

\* s.startswith(p)
StartsWith(s, p) ==
    /\ Len(p) <= Len(s)
    /\ \A k \in 1..Len(p) : s[k] = p[k]

\* the pattern's literal p matches s at position i (1-based)
MatchAt(s, i, p) ==
    /\ i >= 1
    /\ i + Len(p) - 1 <= Len(s)
    /\ \A k \in 1..Len(p) : s[i + k - 1] = p[k]

\* the leftmost of the positions where a pattern matches, 0 when there is
\* none (the regular expression engine scans from the left)
Leftmost(hits) ==
    IF hits = {} THEN 0 ELSE CHOOSE i \in hits : \A j \in hits : i <= j

----------------------------------------------------------------------------
(* clean_email_text *)

DashLiteral == <<NL, "-", "-">>
SentFromLiteral == <<NL, "S", "e", "n", "t", " ", "f", "r", "o", "m", " ", "m", "y", " ">>
BestRegardsLiteral == <<NL, "B", "e", "s", "t", " ", "r", "e", "g", "a", "r", "d", "s">>
ThanksLiteral == <<NL, "T", "h", "a", "n", "k", "s", ",">>

\* r'\n--\s*\n' matches at i: "\n--", then whitespace holding a newline
DashSigAt(s, i) ==
    /\ MatchAt(s, i, DashLiteral)
    /\ \E j \in (i + 3)..Len(s) :
          /\ s[j] = NL
          /\ \A k \in (i + 3)..(j - 1) : IsSpace(s[k])

SentFromAt(s, i) == MatchAt(s, i, SentFromLiteral)
BestRegardsAt(s, i) == MatchAt(s, i, BestRegardsLiteral)
ThanksAt(s, i) == MatchAt(s, i, ThanksLiteral)

\* re.sub(pattern + '.*', '', s, flags=re.DOTALL) when the pattern first
\* matches at i (0: nowhere): the match runs to the end of the text, so
\* everything from i on is removed
CutFrom(s, i) == IF i = 0 THEN s ELSE SubSeq(s, 1, i - 1)

\* re.sub(r'\n--\s*\n.*', '', s, flags=re.DOTALL)
StripDashSignature(s) ==
    CutFrom(s, Leftmost({i \in 1..Len(s) : DashSigAt(s, i)}))

\* re.sub(r'\nBest regards.*', '', s, flags=re.DOTALL)
StripBestRegards(s) ==
    CutFrom(s, Leftmost({i \in 1..Len(s) : BestRegardsAt(s, i)}))

\* re.sub(r'\nThanks,.*', '', s, flags=re.DOTALL)
StripThanks(s) ==
    CutFrom(s, Leftmost({i \in 1..Len(s) : ThanksAt(s, i)}))

\* end of the line that holds position i: the position of the next "\n"
\* after i, Len(s) + 1 when there is none ('.' does not match "\n")
LineEnd(s, i) ==
    LET nls == {j \in (i + 1)..Len(s) : s[j] = NL}
    IN  IF nls = {} THEN Len(s) + 1 ELSE CHOOSE j \in nls : \A k \in nls : j <= k

\* the substitution below with count=1: only the first match is removed
StripSentFromFirst(s) ==
    LET i == Leftmost({k \in 1..Len(s) : SentFromAt(s, k)})
    IN  IF i = 0 THEN s
        ELSE SubSeq(s, 1, i - 1) \o SliceFrom(s, LineEnd(s, i) - 1)

\* re.sub(r'\nSent from my .*', '', s): without DOTALL every match ends at
\* the end of its line, and every match is removed
RECURSIVE StripSentFrom(_)
StripSentFrom(s) ==
    LET i == Leftmost({k \in 1..Len(s) : SentFromAt(s, k)})
    IN  IF i = 0 THEN s
        ELSE SubSeq(s, 1, i - 1)
             \o StripSentFrom(SliceFrom(s, LineEnd(s, i) - 1))

\* re.sub(r'\n\n+', '\n\n', s): of a run of newlines the first two are kept
CollapseBlankLines(s) ==
    LET Keep(i) == ~(s[i] = NL /\ i > 2 /\ s[i - 1] = NL /\ s[i - 2] = NL)
        kept == SelectSeq([i \in 1..Len(s) |-> i], Keep)
    IN  [n \in 1..Len(kept) |-> s[kept[n]]]

\* s.strip()
Strip(s) ==
    LET solid == {i \in 1..Len(s) : ~IsSpace(s[i])}
    IN  IF solid = {} THEN <<>>
        ELSE SubSeq(s, CHOOSE i \in solid : \A j \in solid : i <= j,
                       CHOOSE i \in solid : \A j \in solid : i >= j)

MinCleanLength == 50

\* no length test
KeepShort(s) == s

\* `if len(text) < 50: return ""`
DiscardShort(s) == IF Len(s) < MinCleanLength THEN <<>> ELSE s

clean_email_text(t) ==
    IF Falsy(t) THEN <<>>
    ELSE LET t1 == StripDashSignature(t)
             t2 == StripSentFrom(t1)
             t3 == StripBestRegards(t2)
             t4 == StripThanks(t3)
             t5 == CollapseBlankLines(t4)
             t6 == Strip(t5)
         IN  DiscardShort(t6)

\* a body text exactly as long as the length limit
Filler == Repeat("a", MinCleanLength)

----------------------------------------------------------------------------
(* extract_context and create_training_examples                            *)
(*                                                                         *)
(* An email is a dict: a function from its keys to values.  A raised       *)
(* AttributeError (a str method called on None) is the sentinel below.     *)

AttributeError == <<"AttributeError">>

\* d.get(k, default)
Get(d, k, default) == IF k \in DOMAIN d THEN d[k] ELSE default

\* str(x) of None or of a value held as its text
PyStr(x) == IF x = None THEN <<"N", "o", "n", "e">> ELSE x

ReplyPrefixes == {<<"R", "e", ":", " ">>, <<"R", "E", ":", " ">>}

ContextLiteral == <<"P", "r", "e", "v", "i", "o", "u", "s", " ", "e", "m", "a", "i", "l", " ", "s", "u", "b", "j", "e", "c", "t", ":", " ">>

\* subject.startswith('Re: ') or subject.startswith('RE: ')
IsReplySubject(subject) == \E p \in ReplyPrefixes : StartsWith(subject, p)

extract_context(email) ==
    LET subject == Get(email, "subject", <<>>)
    IN  IF subject = None THEN AttributeError
        ELSE IF IsReplySubject(subject)
             THEN ContextLiteral \o SliceFrom(subject, 4)
             ELSE None

ReplyInstructionLiteral == <<"W", "r", "i", "t", "e", " ", "a", " ", "p", "r", "o", "f", "e", "s", "s", "i", "o", "n", "a", "l", " ", "e", "m", "a", "i", "l", " ", "r", "e", "p", "l", "y", " ", "a", "b", "o", "u", "t", ":", " ">>
\* a context line that follows the subject after one newline
ContextOnNextLine == <<"\n", "C", "o", "n", "t", "e", "x", "t", ":", " ">>

ContextSeparatorLiteral == <<"\n", "\n", "C", "o", "n", "t", "e", "x", "t", ":", " ">>
NewInstructionLiteral == <<"W", "r", "i", "t", "e", " ", "a", " ", "p", "r", "o", "f", "e", "s", "s", "i", "o", "n", "a", "l", " ", "e", "m", "a", "i", "l", " ", "a", "b", "o", "u", "t", ":", " ">>

\* the body of the loop for an email whose cleaned text is not empty
BuildExample(email, body) ==
    LET subject == Get(email, "subject", <<>>)
        context == extract_context(email)
    IN  [instruction |->
            IF ~Falsy(context)
            THEN ReplyInstructionLiteral \o subject
                 \o ContextSeparatorLiteral \o context
            ELSE NewInstructionLiteral \o subject,
         input |-> <<>>,
         output |-> body,
         metadata |-> [email_id |-> Get(email, "id", None),
                       subject |-> subject,
                       sent_at |-> PyStr(Get(email, "sent_at", <<>>)),
                       from |-> Get(email, "from_email", None),
                       to |-> Get(email, "to_email", None)]]

\* one pass of `for email in emails`: the examples so far, or the exception
\* that left the loop
RECURSIVE ExamplesLoop(_, _)
ExamplesLoop(todo, done) ==
    IF todo = <<>> THEN [exc |-> "none", value |-> done]
    ELSE LET email == Head(todo)
             body == clean_email_text(Get(email, "text_plain", <<>>))
         IN  IF Falsy(body) THEN ExamplesLoop(Tail(todo), done)
             ELSE IF extract_context(email) = AttributeError
                  THEN [exc |-> "AttributeError", value |-> <<>>]
                  ELSE ExamplesLoop(Tail(todo),
                                    Append(done, BuildExample(email, body)))

create_training_examples(es) == ExamplesLoop(es, <<>>)

----------------------------------------------------------------------------
(* create_alpaca_format, create_chat_format, split_dataset, save_dataset   *)

\* a formatter that returns the examples as they are
AlpacaKeepsMetadata(exs) == exs

create_alpaca_format(exs) ==
    [i \in 1..Len(exs) |-> [instruction |-> exs[i].instruction,
                            input |-> exs[i].input,
                            output |-> exs[i].output]]

\* the fixed system prompt, held as one piece
SystemPrompt == <<"You are a helpful email assistant. Write emails in a professional, clear, and concise manner matching the user's writing style.">>

create_chat_format(exs) ==
    [i \in 1..Len(exs) |->
        [messages |-> <<[role |-> "system", content |-> SystemPrompt],
                        [role |-> "user", content |-> exs[i].instruction],
                        [role |-> "assistant", content |-> exs[i].output]>>]]

\* the orders random.shuffle can leave a list of n elements in
ShuffleOrders(n) ==
    {p \in [1..n -> 1..n] : \A i, j \in 1..n : p[i] = p[j] => i = j}

\* int(x) of the quotient num / den: truncation toward zero
IntTrunc(num, den) ==
    IF num >= 0 THEN num \div den ELSE -((-num) \div den)

\* round(len(examples) * train_ratio)
SplitIndexRounded(n, num, den) == (2 * n * num + den) \div (2 * den)

\* split_idx = int(len(examples) * train_ratio), for the ratio num / den
SplitIndex(n, num, den) == IntTrunc(n * num, den)

\* split_dataset(examples, num/den) when random.shuffle leaves the order
\* perm: the list as shuffled in place, and the two slices
split_dataset(exs, num, den, perm) ==
    LET shuffled == [i \in 1..Len(exs) |-> exs[perm[i]]]
        split_idx == SplitIndex(Len(exs), num, den)
    IN  [examples |-> shuffled,
         train |-> SliceTo(shuffled, split_idx),
         val |-> SliceFrom(shuffled, split_idx)]

\* train_ratio: float = 0.9
DefaultRatioNum == 9
DefaultRatioDen == 10

UserId == "user-id"

FileNames(fmt) == <<"train_" \o fmt \o ".jsonl",
                    "val_" \o fmt \o ".jsonl",
                    "dataset_" \o fmt \o ".json">>

\* a document whose total_examples counts the training records only
FileContentsCountingTrain(fmt, formatted, train, val) ==
    <<train, val,
      [train |-> train,
       val |-> val,
       metadata |-> [user_id |-> UserId,
                     total_examples |-> Len(train),
                     train_examples |-> Len(train),
                     val_examples |-> Len(val),
                     format |-> fmt]]>>

\* what save_dataset writes, in the order it writes it
FileContents(fmt, formatted, train, val) ==
    <<train, val,
      [train |-> train,
       val |-> val,
       metadata |-> [user_id |-> UserId,
                     total_examples |-> Len(formatted),
                     train_examples |-> Len(train),
                     val_examples |-> Len(val),
                     format |-> fmt]]>>

\* the list save_dataset splits: a new list for alpaca and chat, the
\* caller's own list for any other format
Formatted(exs, fmt) ==
    IF fmt = "alpaca" THEN create_alpaca_format(exs)
    ELSE IF fmt = "chat" THEN create_chat_format(exs)
    ELSE exs

\* save_dataset(examples, output_dir, fmt) when the shuffle leaves the order
\* perm and the file system lets `written` of the three files be written
\* (an OSError ends the call when written < 3): the files of the output
\* directory, the caller's list afterwards, and the exception if any
save_dataset(exs, fmt, perm, written, disk) ==
    LET formatted == Formatted(exs, fmt)
        split == split_dataset(formatted, DefaultRatioNum, DefaultRatioDen, perm)
        names == FileNames(fmt)
        contents == FileContents(fmt, formatted, split.train, split.val)
        new == {names[k] : k \in 1..written}
    IN  [files |-> [f \in DOMAIN disk \cup new |->
                       IF f \in new
                       THEN contents[CHOOSE k \in 1..written : names[k] = f]
                       ELSE disk[f]],
         examples |-> IF fmt \in {"alpaca", "chat"} THEN exs ELSE split.examples,
         exc |-> IF written < 3 THEN "OSError" ELSE "none"]

----------------------------------------------------------------------------
(* create_statistics                                                       *)

\* s.startswith(('Re:', 'RE:')) and s.startswith(('Fwd:', 'FW:'))
ReplyCountPrefixes == {<<"R", "e", ":">>, <<"R", "E", ":">>}
\* forward prefixes that also take `RE:` for a forward
ForwardOrReplyPrefixes == {<<"F", "w", "d", ":">>, <<"F", "W", ":">>, <<"R", "E", ":">>}

ForwardCountPrefixes == {<<"F", "w", "d", ":">>, <<"F", "W", ":">>}

\* s.startswith(prefixes) for a tuple of prefixes
StartsWithAny(s, prefixes) == \E p \in prefixes : StartsWith(s, p)

\* sum(...) of a list of numbers
RECURSIVE Sum(_)
Sum(ns) == IF ns = <<>> THEN 0 ELSE Head(ns) + Sum(Tail(ns))

\* min(...) and max(...) of a non-empty list of numbers
Min(ns) == CHOOSE m \in {ns[i] : i \in DOMAIN ns} : \A i \in DOMAIN ns : m <= ns[i]
Max(ns) == CHOOSE m \in {ns[i] : i \in DOMAIN ns} : \A i \in DOMAIN ns : m >= ns[i]

\* the statements after the guard, run on any list: the division raises on
\* an empty one, startswith on a subject that is None
StatisticsOf(exs) ==
    LET total == Len(exs)
        lengths == [i \in 1..total |-> Len(exs[i].output)]
        subjects == [i \in 1..total |-> exs[i].metadata.subject]
    IN  IF total = 0 THEN [exc |-> "ZeroDivisionError", value |-> <<>>]
        ELSE IF \E i \in 1..total : subjects[i] = None
             THEN [exc |-> "AttributeError", value |-> <<>>]
        ELSE LET reply_count ==
                     Cardinality({i \in 1..total :
                                     StartsWithAny(subjects[i], ReplyCountPrefixes)})
                 forward_count ==
                     Cardinality({i \in 1..total :
                                     StartsWithAny(subjects[i], ForwardCountPrefixes)})
             IN  [exc |-> "none",
                  value |-> [total_examples |-> total,
                             avg_email_length |-> IntTrunc(Sum(lengths), total),
                             min_email_length |-> Min(lengths),
                             max_email_length |-> Max(lengths),
                             reply_emails |-> reply_count,
                             forward_emails |-> forward_count,
                             new_emails |-> total - reply_count - forward_count]]

\* create_statistics without `if not examples: return {}`
StatisticsUnguarded(exs) == StatisticsOf(exs)

\* create_statistics(examples): the dict returned ({} is the empty function),
\* or the exception raised
create_statistics(exs) ==
    IF Len(exs) = 0 THEN [exc |-> "none", value |-> <<>>] ELSE StatisticsOf(exs)

----------------------------------------------------------------------------

(* connect, close, fetch_sent_emails                                       *)

\* connect(): psycopg2.connect returns a connection, or raises and the
\* except clause calls sys.exit(1)
connect(ok) ==
    IF ok THEN [conn |-> "open", exc |-> "none"]
    ELSE [conn |-> "none", exc |-> "SystemExit"]

\* close(): `if self.conn: self.conn.close()`
close(c) == IF c = "open" THEN "closed" ELSE c

\* LENGTH(e.text_plain) > 50
MinBodyLength == 50

\* the WHERE clause on the columns of a row:
\* e.text_plain IS NOT NULL AND LENGTH(e.text_plain) > 50
RowSelected(row) == row[3] # None /\ Len(row[3]) > MinBodyLength

\* the dict built from a row of the result
RowToEmail(row) ==
    [id |-> row[1], subject |-> row[2], text_plain |-> row[3],
     text_html |-> row[4], snippet |-> row[5], sent_at |-> row[6],
     from_email |-> row[7], to_email |-> row[8]]

\* an except clause that closes the cursor and lets the exception through
OnQueryErrorRaise ==
    [exc |-> "OperationalError", emails |-> <<>>, cursor |-> "closed"]

\* the except clause of fetch_sent_emails: the cursor is closed and an empty
\* list returned
OnQueryError == [exc |-> "none", emails |-> <<>>, cursor |-> "closed"]

\* fetch_sent_emails() when the store answers `outcome`: conn.cursor()
\* raises (outside the try), the query raises, or the rows come back
fetch_sent_emails(outcome, rows) ==
    IF outcome = "cursor_error"
    THEN [exc |-> "OperationalError", emails |-> <<>>, cursor |-> "none"]
    ELSE IF outcome = "query_error" THEN OnQueryError
    ELSE [exc |-> "none",
          emails |-> [i \in 1..Len(rows) |-> RowToEmail(rows[i])],
          cursor |-> "closed"]

----------------------------------------------------------------------------
(* The variables of the driver while a method is called on its own, and    *)
(* those of a direct call while the driver runs.                           *)

\* exit_status while the process is still running
NotExited == -1

DriverIdle ==
    /\ pc = "idle" /\ min_emails = 0 /\ format = "both" /\ conn = "none"
    /\ cursor = "none" /\ emails = <<>> /\ examples = <<>> /\ files = <<>>
    /\ exit_status = NotExited /\ log = <<>> /\ query_raised = FALSE
    /\ exc = "none" /\ stats = <<>>

CleanIdle ==
    /\ text = <<>> /\ cleaned = <<>> /\ recleaned = <<>> /\ clean_pc = "idle"

ContextIdle ==
    /\ arg_email = [id |-> 0] /\ ret_context = None /\ context_pc = "idle"

SplitIdle ==
    /\ split_given = <<>> /\ split_list = <<>> /\ split_ratio = 0
    /\ split_train = <<>> /\ split_val = <<>> /\ split_pc = "idle"

FormatIdle ==
    /\ format_given = <<>> /\ alpaca_examples = <<>> /\ chat_examples = <<>>
    /\ format_pc = "idle"

EvalIdle ==
    /\ config = "absent" /\ arg_base_model = None /\ use_4bit = FALSE
    /\ base_model = None /\ model = None /\ eval_pc = "idle"
    /\ eval_exc = "none" /\ eval_exit_status = NotExited

----------------------------------------------------------------------------
(* main(): one step per statement of the driver.  pc is the statement      *)
(* about to run; exc is the exception on its way out (SystemExit for       *)
(* sys.exit(1)); log lists the calls made so far; files holds the files    *)
(* this run has written.                                                   *)

MaxEmails == 2

Body51 == Filler \o <<"b">>
BodySigned == Filler \o ThanksLiteral \o <<NL, "J">>
BodyPadded == SubSeq(Filler, 1, MinCleanLength - 1) \o <<NL, NL>>
BodyShort == <<"H", "i", ",">>

SentAt == <<"2", "0", "2", "4", "-", "0", "1", "-", "0", "2">>
FromEmail == <<"m", "e", "@", "x">>
ToEmail == <<"y", "o", "u", "@", "x">>

\* rows of the join, before the WHERE clause on the body
TableRows ==
    {<<1, <<"R", "e", ":", " ", "U", "p">>, Body51, None, None, SentAt, FromEmail, ToEmail>>,
     <<2, <<"S", "t", "a", "t", "u", "s">>, BodySigned, None, None, SentAt, FromEmail, ToEmail>>,
     <<3, <<"H", "e", "l", "l", "o">>, BodyPadded, None, None, SentAt, FromEmail, ToEmail>>,
     <<4, None, Body51, None, None, SentAt, FromEmail, ToEmail>>,
     <<5, <<"S", "t", "a", "t", "u", "s">>, BodyShort, None, None, SentAt, FromEmail, ToEmail>>,
     <<6, <<"S", "t", "a", "t", "u", "s">>, None, None, None, SentAt, FromEmail, ToEmail>>}

\* what cursor.fetchall() can return: at most max selected rows
ResultSets(max) ==
    UNION {[1..n -> {row \in TableRows : RowSelected(row)}] : n \in 0..max}

\* a try block with close() called only at its end
UnwindSkipsClose(how) == IF how = "return" THEN "finally" ELSE "exit"

\* where control goes when the try block is left by `how`: a return off its
\* end, a SystemExit or another exception.  try/finally: always the finally
UnwindTo(how) == "finally"

\* the exit status of the process when exception e leaves main
ExitCode(e) == IF e = "none" THEN 0 ELSE 1

Init ==
    /\ pc = "connect"
    /\ min_emails \in 0..MaxEmails
    /\ format \in {"alpaca", "chat", "both"}
    /\ conn = "none"
    /\ cursor = "none"
    /\ emails = <<>>
    /\ examples = <<>>
    /\ files = <<>>
    /\ exit_status = NotExited
    /\ log = <<>>
    /\ query_raised = FALSE
    /\ exc = "none"
    /\ stats = <<>>
    /\ CleanIdle /\ ContextIdle /\ SplitIdle /\ FormatIdle /\ EvalIdle

\* preparer.connect(), before the try block
Connect ==
    /\ pc = "connect"
    /\ \E ok \in BOOLEAN :
          LET r == connect(ok)
          IN  /\ conn' = r.conn
              /\ exc' = r.exc
              /\ pc' = IF r.exc = "none" THEN "fetch" ELSE "exit"
    /\ log' = Append(log, "connect")
    /\ UNCHANGED <<min_emails, format, stats, cursor, emails, examples, files,
                   exit_status, query_raised, callVars>>

\* emails = preparer.fetch_sent_emails()
Fetch ==
    /\ pc = "fetch"
    /\ \E outcome \in {"ok", "query_error", "cursor_error"} :
       \E rows \in IF outcome = "ok" THEN ResultSets(MaxEmails) ELSE {<<>>} :
          LET r == fetch_sent_emails(outcome, rows)
          IN  /\ cursor' = r.cursor
              /\ exc' = r.exc
              /\ emails' = r.emails
              /\ query_raised' = (outcome = "query_error")
              /\ pc' = IF r.exc = "none" THEN "check_min" ELSE UnwindTo("exception")
    /\ log' = Append(log, "fetch_sent_emails")
    /\ UNCHANGED <<min_emails, format, stats, conn, examples, files, exit_status,
                   callVars>>

\* if len(emails) < args.min_emails: sys.exit(1)
CheckMinEmails ==
    /\ pc = "check_min"
    /\ IF Len(emails) < min_emails
       THEN exc' = "SystemExit" /\ pc' = UnwindTo("SystemExit")
       ELSE exc' = exc /\ pc' = "assemble"
    /\ log' = Append(log, "check_min_emails")
    /\ UNCHANGED <<min_emails, format, stats, conn, cursor, emails, examples, files,
                   exit_status, query_raised, callVars>>

\* examples = preparer.create_training_examples(emails)
CreateTrainingExamples ==
    /\ pc = "assemble"
    /\ LET r == create_training_examples(emails)
       IN  /\ exc' = r.exc
           /\ examples' = r.value
           /\ pc' = IF r.exc = "none" THEN "check_examples"
                    ELSE UnwindTo("exception")
    /\ log' = Append(log, "create_training_examples")
    /\ UNCHANGED <<min_emails, format, stats, conn, cursor, emails, files,
                   exit_status, query_raised, callVars>>

\* a non-empty check that goes on to the save steps without the statistics
CheckExamplesThenSave ==
    /\ pc = "check_examples"
    /\ IF examples = <<>>
       THEN exc' = "SystemExit" /\ pc' = UnwindTo("SystemExit")
       ELSE exc' = exc /\ pc' = "save_alpaca"
    /\ log' = Append(log, "check_examples")
    /\ UNCHANGED <<min_emails, format, stats, conn, cursor, emails, examples, files,
                   exit_status, query_raised, callVars>>

\* if not examples: sys.exit(1)
CheckExamples ==
    /\ pc = "check_examples"
    /\ IF examples = <<>>
       THEN exc' = "SystemExit" /\ pc' = UnwindTo("SystemExit")
       ELSE exc' = exc /\ pc' = "stats"
    /\ log' = Append(log, "check_examples")
    /\ UNCHANGED <<min_emails, format, stats, conn, cursor, emails, examples, files,
                   exit_status, query_raised, callVars>>

\* stats = preparer.create_statistics(examples), and its printing
CreateStatistics ==
    /\ pc = "stats"
    /\ LET r == create_statistics(examples)
       IN  /\ stats' = r.value
           /\ exc' = r.exc
           /\ pc' = IF r.exc = "none" THEN "save_alpaca"
                    ELSE UnwindTo("exception")
    /\ log' = Append(log, "create_statistics")
    /\ UNCHANGED <<min_emails, format, conn, cursor, emails, examples, files,
                   exit_status, query_raised, callVars>>

\* if args.format in [fmt, 'both']: preparer.save_dataset(examples, output_dir, fmt)
SaveStep(fmt, here, next) ==
    /\ pc = here
    /\ IF format \in {fmt, "both"}
       THEN /\ \E perm \in ShuffleOrders(Len(examples)) :
               \E written \in 0..3 :
                  LET r == save_dataset(examples, fmt, perm, written, files)
                  IN  /\ files' = r.files
                      /\ examples' = r.examples
                      /\ exc' = r.exc
                      /\ pc' = IF r.exc = "none" THEN next
                               ELSE UnwindTo("exception")
            /\ log' = Append(log, "save_dataset:" \o fmt)
       ELSE /\ pc' = next
            /\ UNCHANGED <<files, examples, exc, log>>
    /\ UNCHANGED <<min_emails, format, stats, conn, cursor, emails, exit_status,
                   query_raised, callVars>>

SaveAlpaca == SaveStep("alpaca", "save_alpaca", "save_chat")

SaveChat == SaveStep("chat", "save_chat", "complete")

\* the closing messages; control runs off the end of the try block
Complete ==
    /\ pc = "complete"
    /\ pc' = UnwindTo("return")
    /\ UNCHANGED <<min_emails, format, stats, conn, cursor, emails, examples, files,
                   exit_status, log, query_raised, exc, callVars>>

\* finally: preparer.close()
Finally ==
    /\ pc = "finally"
    /\ conn' = close(conn)
    /\ pc' = "exit"
    /\ log' = Append(log, "close")
    /\ UNCHANGED <<min_emails, format, stats, cursor, emails, examples, files,
                   exit_status, query_raised, exc, callVars>>

\* the process ends
Exit ==
    /\ pc = "exit"
    /\ exit_status' = ExitCode(exc)
    /\ pc' = "done"
    /\ UNCHANGED <<min_emails, format, stats, conn, cursor, emails, examples, files,
                   log, query_raised, exc, callVars>>

Next ==
    \/ Connect
    \/ Fetch
    \/ CheckMinEmails
    \/ CreateTrainingExamples
    \/ CheckExamples
    \/ CreateStatistics
    \/ SaveAlpaca
    \/ SaveChat
    \/ Complete
    \/ Finally
    \/ Exit

Spec == Init /\ [][Next]_vars

----------------------------------------------------------------------------
(* Properties of the driver                                                *)

Called(name) == \E i \in DOMAIN log : log[i] = name

\* connect() failed, or the connection failed when the cursor was asked for
ConnectionFailed == conn = "none" \/ exc = "OperationalError"

\* fetch_sent_emails returned fewer than min_emails emails
TooFewEmails == cursor = "closed" /\ Len(emails) < min_emails

\* create_training_examples returned an empty list
NoExamples == Called("check_examples") /\ examples = <<>>

\* C1: a run ends with a non-zero exit status and without having written any
\* output file when the connection fails, when fewer than min_emails emails
\* were fetched, or when create_training_examples yields no example; every
\* other run ends with exit status zero.
C1_ExitStatus ==
    pc = "done" =>
        IF ConnectionFailed \/ TooFewEmails \/ NoExamples
        THEN exit_status # 0 /\ DOMAIN files = {}
        ELSE exit_status = 0

\* C2: once connect succeeded the connection is closed before the process
\* ends, whichever way the try block was left, and nothing is called on the
\* preparer after close().
C2_ConnectionClosed ==
    /\ pc \in {"exit", "done"} /\ conn # "none" => conn = "closed"
    /\ \A i, j \in DOMAIN log : log[i] = "close" => j <= i

C2_Witness ==
    /\ pc = "done"
    /\ conn = "closed"
    /\ exc = "AttributeError"
    /\ log[Len(log)] = "close"

\* C4: when the query raises, fetch_sent_emails closes the cursor and returns
\* an empty list instead of raising, and main compares its length with
\* min_emails as it does any other result.
C4_QueryErrorGivesEmptyList ==
    query_raised =>
        /\ emails = <<>>
        /\ cursor = "closed"
        /\ exc # "OperationalError"
        /\ pc # "fetch"
        /\ log[Len(log)] = "check_min_emails" =>
              pc = IF Len(emails) < min_emails THEN "finally" ELSE "assemble"

C4_Witness ==
    /\ query_raised
    /\ min_emails > 0
    /\ pc = "done"
    /\ exit_status = 1
    /\ ~Called("create_training_examples")

\* the output text of a persisted record
OutputOf(fmt, rec) ==
    IF fmt = "chat" THEN rec.messages[3].content ELSE rec.output

\* the records a run has persisted in format fmt, file by file
Persisted(fmt) ==
    LET names == FileNames(fmt)
        Lines(k) == IF names[k] \in DOMAIN files THEN files[names[k]] ELSE <<>>
        doc == IF names[3] \in DOMAIN files THEN files[names[3]]
               ELSE [train |-> <<>>, val |-> <<>>]
    IN  Lines(1) \o Lines(2) \o doc.train \o doc.val

\* C7: clean_email_text returns the empty text or a text of at least 50
\* characters, so every training example and every persisted record has an
\* output of at least 50 characters.
C7_OutputAtLeastFifty ==
    /\ \A i \in DOMAIN emails :
          LET c == clean_email_text(emails[i].text_plain)
          IN  c = <<>> \/ Len(c) >= 50
    /\ \A i \in DOMAIN examples : Len(examples[i].output) >= 50
    /\ \A fmt \in {"alpaca", "chat"} :
          \A i \in DOMAIN Persisted(fmt) : Len(OutputOf(fmt, Persisted(fmt)[i])) >= 50

C7_Witness ==
    /\ pc = "done"
    /\ exit_status = 0
    /\ \E i \in DOMAIN emails : clean_email_text(emails[i].text_plain) = <<>>
    /\ \E i \in DOMAIN Persisted("alpaca") : Len(Persisted("alpaca")[i].output) = 50
    /\ Len(Persisted("chat")) = 2 * Len(examples)

\* the combined document a run has written in format fmt
HasDocument(fmt) == FileNames(fmt)[3] \in DOMAIN files
Document(fmt) == files[FileNames(fmt)[3]]

\* what save_dataset writes for a hundred examples left in their order
HundredExamples == [i \in 1..100 |-> [instruction |-> <<>>, input |-> <<>>, output |-> Filler]]
HundredSaved ==
    save_dataset(HundredExamples, "alpaca", [i \in 1..100 |-> i], 3, <<>>).files

\* C13: in every combined document written, total_examples is the number of
\* formatted examples, train_examples and val_examples are the lengths of
\* the train and val lists of the document, which are the contents of the
\* two .jsonl files, and total_examples = train_examples + val_examples; a
\* hundred examples give 90, 10 and 100.
C13_MetadataCounts ==
    /\ \A fmt \in {"alpaca", "chat"} :
          HasDocument(fmt) =>
             LET doc == Document(fmt)
             IN  /\ doc.metadata.total_examples = Len(Formatted(examples, fmt))
                 /\ doc.metadata.train_examples = Len(doc.train)
                 /\ doc.metadata.val_examples = Len(doc.val)
                 /\ doc.train = files[FileNames(fmt)[1]]
                 /\ doc.val = files[FileNames(fmt)[2]]
                 /\ doc.metadata.total_examples
                       = doc.metadata.train_examples + doc.metadata.val_examples
    /\ Len(HundredSaved["train_alpaca.jsonl"]) = 90
    /\ Len(HundredSaved["val_alpaca.jsonl"]) = 10
    /\ HundredSaved["dataset_alpaca.json"].metadata.total_examples = 100
    /\ HundredSaved["dataset_alpaca.json"].metadata.train_examples = 90
    /\ HundredSaved["dataset_alpaca.json"].metadata.val_examples = 10

C13_Witness ==
    /\ pc = "done"
    /\ HasDocument("alpaca") /\ HasDocument("chat")
    /\ Document("chat").metadata.total_examples = 2
    /\ Document("chat").metadata.train_examples = 1
    /\ Len(files["val_chat.jsonl"]) = 1

\* the steps of a run in their order
StepOrder ==
    <<"connect", "fetch_sent_emails", "check_min_emails",
      "create_training_examples", "check_examples", "create_statistics",
      "save_dataset:alpaca", "save_dataset:chat", "close">>

Rank(name) == CHOOSE k \in DOMAIN StepOrder : StepOrder[k] = name

\* every file of format fmt is written
AllWritten(fmt) == \A k \in 1..3 : FileNames(fmt)[k] \in DOMAIN files

\* C17: the steps of a run occur in one fixed order, each at most once and
\* none before all its predecessors: connect, fetch, the min_emails check,
\* the assembly, the non-empty check, the statistics, then for each selected
\* format (alpaca before chat) the conversion, split and writing of its
\* three files, and close as the last step.
C17_LinearOrder ==
    /\ \A i \in DOMAIN log : \E k \in DOMAIN StepOrder : log[i] = StepOrder[k]
    /\ \A i, j \in DOMAIN log : i < j => Rank(log[i]) < Rank(log[j])
    /\ \A i \in DOMAIN log :
          /\ Rank(log[i]) <= 6 => i = Rank(log[i])
          /\ log[i] = "save_dataset:alpaca" =>
                i = 7 /\ format \in {"alpaca", "both"}
          /\ log[i] = "save_dataset:chat" =>
                /\ format \in {"chat", "both"}
                /\ i = IF format = "both" THEN 8 ELSE 7
          /\ log[i] = "close" => i = Len(log) /\ i >= 2
    /\ \A fmt \in {"alpaca", "chat"} :
          /\ (\E k \in 1..3 : FileNames(fmt)[k] \in DOMAIN files)
                => Called("save_dataset:" \o fmt)
          /\ Called("save_dataset:" \o fmt) /\ exc = "none" => AllWritten(fmt)
          /\ \A k \in 1..2 :
                FileNames(fmt)[k + 1] \in DOMAIN files
                   => FileNames(fmt)[k] \in DOMAIN files
    /\ pc = "done" /\ exit_status = 0 =>
          log = SelectSeq(StepOrder,
                          LAMBDA s : /\ s = "save_dataset:alpaca" => format # "chat"
                                     /\ s = "save_dataset:chat" => format # "alpaca")

C17_Witness ==
    /\ pc = "done"
    /\ format = "both"
    /\ log = StepOrder
    /\ AllWritten("alpaca") /\ AllWritten("chat")

\* C18: whenever main has saved a dataset, neither the training file nor the
\* validation file is empty.
C18_SubsetsNotEmpty ==
    \A fmt \in {"alpaca", "chat"} :
        AllWritten(fmt) =>
            /\ Len(files[FileNames(fmt)[1]]) >= 1
            /\ Len(files[FileNames(fmt)[2]]) >= 1

----------------------------------------------------------------------------
(* Texts given to clean_email_text: every concatenation of at most         *)
(* MaxChunks pieces, where a piece is a run of body characters as long as   *)
(* the length limit, one body character, a newline, a blank, a `--`, one   *)
(* of the three worded sign-off markers at the start of a line, or         *)
(* "Thanks," in the middle of a line.                                      *)

MaxChunks == 4

Chunks == {Filler, <<"b">>, <<NL>>, <<" ">>, <<"-", "-">>,
           SentFromLiteral, BestRegardsLiteral, ThanksLiteral,
           Tail(ThanksLiteral)}

RECURSIVE ChunkSeqs(_)
ChunkSeqs(n) ==
    IF n = 0 THEN {<<>>}
    ELSE LET shorter == ChunkSeqs(n - 1)
         IN  shorter \cup {cs \o <<c>> : cs \in {x \in shorter : Len(x) = n - 1}, c \in Chunks}

\* None and the texts of at most n pieces
Texts(n) == {Concat(cs) : cs \in ChunkSeqs(n)} \cup {None}

InitClean ==
    /\ DriverIdle /\ ContextIdle /\ SplitIdle /\ FormatIdle /\ EvalIdle
    /\ text \in Texts(MaxChunks)
    /\ cleaned = <<>>
    /\ recleaned = <<>>
    /\ clean_pc = "call"

\* cleaned = clean_email_text(text)
CallClean ==
    /\ clean_pc = "call"
    /\ cleaned' = clean_email_text(text)
    /\ clean_pc' = "cleaned"
    /\ UNCHANGED <<text, recleaned, driverVars, contextVars, splitVars,
                   formatVars, evalVars>>

\* recleaned = clean_email_text(cleaned)
CallCleanAgain ==
    /\ clean_pc = "cleaned"
    /\ recleaned' = clean_email_text(cleaned)
    /\ clean_pc' = "recleaned"
    /\ UNCHANGED <<text, cleaned, driverVars, contextVars, splitVars,
                   formatVars, evalVars>>

NextClean == CallClean \/ CallCleanAgain

SpecClean == InitClean /\ [][NextClean]_vars

\* C6: cleaning a cleaned text changes nothing:
\* clean_email_text(clean_email_text(x)) = clean_email_text(x).
C6_CleanIdempotent == clean_pc = "recleaned" => recleaned = cleaned

C6_Witness ==
    /\ clean_pc = "recleaned"
    /\ cleaned # <<>>
    /\ cleaned # text
    /\ \E i \in 1..Len(text) : SentFromAt(text, i)

\* one of the four sign-off patterns matches at position i of s, where the
\* newline before the marker is: the marker itself starts at i + 1
SignOffAt(s, i) ==
    DashSigAt(s, i) \/ SentFromAt(s, i) \/ BestRegardsAt(s, i) \/ ThanksAt(s, i)

\* the position of the first sign-off match in s, 0 when there is none
FirstSignOff(s) == Leftmost({i \in 1..Len(s) : SignOffAt(s, i)})

\* the characters a[i..] can be found in order in b[j..]
RECURSIVE IsSubsequenceFrom(_, _, _, _)
IsSubsequenceFrom(a, i, b, j) ==
    IF i > Len(a) THEN TRUE
    ELSE IF j > Len(b) THEN FALSE
    ELSE IF a[i] = b[j] THEN IsSubsequenceFrom(a, i + 1, b, j + 1)
    ELSE IsSubsequenceFrom(a, i, b, j + 1)

\* C5: when a sign-off pattern matches in the text, the cleaned text is made
\* only of characters located before the marker of the first match:
\* everything from the marker to the end of the text is removed.
C5_SignatureTailRemoved ==
    clean_pc # "call" /\ text # None /\ FirstSignOff(text) # 0 =>
        IsSubsequenceFrom(cleaned, 1, SubSeq(text, 1, FirstSignOff(text)), 1)

----------------------------------------------------------------------------
(* A call of create_training_examples on any list of at most MaxEmails     *)
(* dicts: the body and the subject are each missing, None, empty or a      *)
(* text.                                                                   *)

Bodies == {None, <<>>, BodyPadded, BodySigned}
Subjects == {None, <<>>, <<"R", "e", ":", " ", "U", "p">>, <<"S", "t", "a", "t", "u", "s">>}

Dicts ==
    {[from_email |-> FromEmail, to_email |-> ToEmail]}
    \cup {[from_email |-> FromEmail, to_email |-> ToEmail, text_plain |-> b] :
             b \in Bodies}
    \cup {[from_email |-> FromEmail, to_email |-> ToEmail, subject |-> sj] :
             sj \in Subjects}
    \cup {[from_email |-> FromEmail, to_email |-> ToEmail, text_plain |-> b,
           subject |-> sj] : b \in Bodies, sj \in Subjects}

\* dict d with the key id
WithId(d, n) == [k \in DOMAIN d \cup {"id"} |-> IF k = "id" THEN n ELSE d[k]]

\* the lists of at most max dicts
EmailLists(max) ==
    UNION {{[i \in 1..n |-> WithId(ds[i], i)] : ds \in [1..n -> Dicts]} :
              n \in 0..max}

InitAssemble ==
    /\ pc = "assemble"
    /\ emails \in EmailLists(MaxEmails)
    /\ min_emails = 0 /\ format = "both" /\ conn = "none" /\ cursor = "none"
    /\ examples = <<>> /\ files = <<>> /\ exit_status = NotExited
    /\ log = <<>> /\ query_raised = FALSE /\ exc = "none" /\ stats = <<>>
    /\ CleanIdle /\ ContextIdle /\ SplitIdle /\ FormatIdle /\ EvalIdle

NextAssemble == CreateTrainingExamples

SpecAssemble == InitAssemble /\ [][NextAssemble]_vars

\* the body or the subject of the record is empty, missing or None
Malformed(e) ==
    Falsy(Get(e, "text_plain", <<>>)) \/ Falsy(Get(e, "subject", <<>>))

WellFormed(e) == ~Malformed(e)

FromWellFormed(x) == ~Falsy(x.metadata.subject)

\* C3: a malformed record never aborts the batch: the call returns, the
\* malformed records give at most one example each, and the other records
\* give what they give when the malformed ones are not in the list.
C3_MalformedRecordSkipped ==
    Called("create_training_examples") =>
        /\ exc = "none"
        /\ SelectSeq(examples, FromWellFormed)
              = create_training_examples(SelectSeq(emails, WellFormed)).value
        /\ Len(examples) - Len(SelectSeq(examples, FromWellFormed))
              <= Len(emails) - Len(SelectSeq(emails, WellFormed))

Survives(e) == clean_email_text(Get(e, "text_plain", <<>>)) # <<>>

\* C10: create_training_examples returns one example for each record whose
\* cleaned body is not empty, in the order of the input: the output is the
\* cleaned body, the input field is empty, and email_id, subject, from and
\* to are those of the record.
C10_OneExamplePerSurvivor ==
    Called("create_training_examples") =>
        LET kept == SelectSeq(emails, Survives)
        IN  /\ exc = "none"
            /\ Len(examples) = Len(kept)
            /\ Len(examples) <= Len(emails)
            /\ \A i \in DOMAIN examples :
                  /\ examples[i].output
                        = clean_email_text(Get(kept[i], "text_plain", <<>>))
                  /\ examples[i].input = <<>>
                  /\ examples[i].metadata.email_id = Get(kept[i], "id", None)
                  /\ examples[i].metadata.subject = Get(kept[i], "subject", <<>>)
                  /\ examples[i].metadata.from = Get(kept[i], "from_email", None)
                  /\ examples[i].metadata.to = Get(kept[i], "to_email", None)

----------------------------------------------------------------------------
\* the texts of the two instruction forms, and those of the example
ReplyForm == <<"W", "r", "i", "t", "e", " ", "a", " ", "p", "r", "o", "f", "e", "s", "s", "i", "o", "n", "a", "l", " ", "e", "m", "a", "i", "l", " ", "r", "e", "p", "l", "y", " ", "a", "b", "o", "u", "t", ":", " ">>
ContextForm == <<"\n", "\n", "C", "o", "n", "t", "e", "x", "t", ":", " ">>
NewForm == <<"W", "r", "i", "t", "e", " ", "a", " ", "p", "r", "o", "f", "e", "s", "s", "i", "o", "n", "a", "l", " ", "e", "m", "a", "i", "l", " ", "a", "b", "o", "u", "t", ":", " ">>
ProjectUpdateSubject == <<"R", "e", ":", " ", "P", "r", "o", "j", "e", "c", "t", " ", "U", "p", "d", "a", "t", "e">>
ProjectUpdateInstruction == <<"W", "r", "i", "t", "e", " ", "a", " ", "p", "r", "o", "f", "e", "s", "s", "i", "o", "n", "a", "l", " ", "e", "m", "a", "i", "l", " ", "r", "e", "p", "l", "y", " ", "a", "b", "o", "u", "t", ":", " ", "R", "e", ":", " ", "P", "r", "o", "j", "e", "c", "t", " ", "U", "p", "d", "a", "t", "e", "\n", "\n", "C", "o", "n", "t", "e", "x", "t", ":", " ", "P", "r", "e", "v", "i", "o", "u", "s", " ", "e", "m", "a", "i", "l", " ", "s", "u", "b", "j", "e", "c", "t", ":", " ", "P", "r", "o", "j", "e", "c", "t", " ", "U", "p", "d", "a", "t", "e">>

\* the record of emails that example x was built from
SourceOf(x) == CHOOSE e \in {emails[i] : i \in DOMAIN emails} :
                  Get(e, "id", None) = x.metadata.email_id

\* C11: the instruction of every example has one of two forms: the reply
\* form, followed by a blank line and the context, when extract_context
\* returns a context for its record, and the plain form otherwise; subject
\* "Re: Project Update" gives the reply form with the context "Previous
\* email subject: Project Update".
C11_InstructionForms ==
    /\ \A i \in DOMAIN examples :
          LET e == SourceOf(examples[i])
              subject == Get(e, "subject", <<>>)
              context == extract_context(e)
          IN  examples[i].instruction
                 = IF context # None
                   THEN ReplyForm \o subject \o ContextForm \o context
                   ELSE NewForm \o subject
    /\ BuildExample([id |-> 1, subject |-> ProjectUpdateSubject], Filler).instruction
          = ProjectUpdateInstruction

C11_Witness ==
    /\ Len(examples) = 2
    /\ extract_context(SourceOf(examples[1])) # None
    /\ extract_context(SourceOf(examples[2])) = None
    /\ examples[1].instruction
          = ReplyForm \o examples[1].metadata.subject \o ContextForm
               \o <<"P", "r", "e", "v", "i", "o", "u", "s", " ", "e", "m", "a", "i", "l", " ", "s", "u", "b", "j", "e", "c", "t", ":", " ", "U", "p">>

----------------------------------------------------------------------------
(* A call of extract_context on a dict whose subject is missing, None, or  *)
(* any text of at most MaxSubject characters of the reply markers.         *)

MaxSubject == 5

SubjectChars == {"R", "r", "E", "e", ":", " ", "x"}

\* the texts of at most max characters
SubjectTexts(max) == UNION {[1..n -> SubjectChars] : n \in 0..max}

InitContext ==
    /\ arg_email \in {[id |-> 1]}
                 \cup {[id |-> 1, subject |-> sj] : sj \in SubjectTexts(MaxSubject) \cup {None}}
    /\ ret_context = None
    /\ context_pc = "call"
    /\ DriverIdle /\ CleanIdle /\ SplitIdle /\ FormatIdle /\ EvalIdle

\* extract_context(email)
ExtractContext ==
    /\ context_pc = "call"
    /\ ret_context' = extract_context(arg_email)
    /\ context_pc' = "done"
    /\ UNCHANGED <<arg_email, driverVars, cleanVars, splitVars, formatVars,
                   evalVars>>

NextContext == ExtractContext

SpecContext == InitContext /\ [][NextContext]_vars

\* the reply markers `Re:` and `RE:`
ReplyMarkers == {<<"R", "e", ":">>, <<"R", "E", ":">>}

\* C8: for a subject text, extract_context returns a context exactly when the
\* subject begins with `Re:` or `RE:`, and None, never an empty text,
\* otherwise.
C8_ContextIffReplyMarker ==
    context_pc = "done" /\ Get(arg_email, "subject", <<>>) # None =>
        /\ ret_context # <<>>
        /\ ret_context # None
              <=> \E p \in ReplyMarkers :
                     StartsWith(Get(arg_email, "subject", <<>>), p)

----------------------------------------------------------------------------
(* A call of split_dataset on any list of at most MaxSplit records, with   *)
(* any ratio k / RatioSteps between 0 and 1.                               *)

MaxSplit == 3
RatioSteps == 10

Items == {"x", "y", "z"}

\* the lists of at most max records
ItemLists(max) == UNION {[1..n -> Items] : n \in 0..max}

InitSplit ==
    /\ split_given \in ItemLists(MaxSplit)
    /\ split_list = split_given
    /\ split_ratio \in 0..RatioSteps
    /\ split_train = <<>>
    /\ split_val = <<>>
    /\ split_pc = "call"
    /\ DriverIdle /\ CleanIdle /\ ContextIdle /\ FormatIdle /\ EvalIdle

\* train, val = split_dataset(examples, train_ratio)
SplitDataset ==
    /\ split_pc = "call"
    /\ \E perm \in ShuffleOrders(Len(split_list)) :
          LET r == split_dataset(split_list, split_ratio, RatioSteps, perm)
          IN  /\ split_list' = r.examples
              /\ split_train' = r.train
              /\ split_val' = r.val
    /\ split_pc' = "done"
    /\ UNCHANGED <<split_given, split_ratio, driverVars, cleanVars, contextVars,
                   formatVars, evalVars>>

NextSplit == SplitDataset

SpecSplit == InitSplit /\ [][NextSplit]_vars

\* the number of occurrences of x in the list
Count(list, x) == Cardinality({i \in DOMAIN list : list[i] = x})

\* C9: train and val partition the list: their lengths add up to its length,
\* len(train) is floor(len * ratio), and each record occurs in train and val
\* together as often as in the list passed.
C9_SplitIsPartition ==
    split_pc = "done" =>
        /\ Len(split_train) + Len(split_val) = Len(split_given)
        /\ Len(split_train) * RatioSteps <= Len(split_given) * split_ratio
        /\ Len(split_given) * split_ratio < (Len(split_train) + 1) * RatioSteps
        /\ \A x \in Items :
              Count(split_train, x) + Count(split_val, x) = Count(split_given, x)

C9_Witness ==
    /\ split_pc = "done"
    /\ Len(split_train) = 2
    /\ Len(split_val) >= 1
    /\ split_train \o split_val # split_given
    /\ (Len(split_given) * split_ratio) % RatioSteps # 0
    /\ \E x \in Items : Count(split_train, x) = 1 /\ Count(split_val, x) = 1

\* C16: split_dataset does not change what it was given: after the call the
\* caller's list holds the same records in the same order as before.
C16_CallerListUnchanged ==
    split_pc = "done" => split_list = split_given

----------------------------------------------------------------------------
(* Lists of at most MaxExamples training examples, as                      *)
(* create_training_examples builds them from records whose bodies clean to *)
(* 50, 51 and 53 characters and whose subjects are empty, replies,         *)
(* forwards or neither.                                                    *)

MaxExamples == 2

Body53 == Filler \o <<"b", "b", "b">>

SampleSubjects == {<<>>, <<"R", "e", ":", " ", "U", "p">>, <<"R", "E", ":">>, <<"F", "w", "d", ":", " ", "U", "p">>, <<"F", "W", ":">>, <<"S", "t", "a", "t", "u", "s">>}
SampleBodies == {BodySigned, Body51, Body53}

SampleEmails ==
    {[subject |-> sj, text_plain |-> b, sent_at |-> SentAt,
      from_email |-> FromEmail, to_email |-> ToEmail] :
        sj \in SampleSubjects, b \in SampleBodies}

ExampleLists(max) ==
    UNION {{create_training_examples([i \in 1..n |-> WithId(ds[i], i)]).value :
               ds \in [1..n -> SampleEmails]} : n \in 0..max}

----------------------------------------------------------------------------
(* A call of create_alpaca_format and one of create_chat_format on the     *)
(* same list of examples.                                                  *)

InitFormat ==
    /\ format_given \in ExampleLists(MaxExamples)
    /\ alpaca_examples = <<>>
    /\ chat_examples = <<>>
    /\ format_pc = "alpaca"
    /\ DriverIdle /\ CleanIdle /\ ContextIdle /\ SplitIdle /\ EvalIdle

\* create_alpaca_format(examples)
CreateAlpacaFormat ==
    /\ format_pc = "alpaca"
    /\ alpaca_examples' = create_alpaca_format(format_given)
    /\ format_pc' = "chat"
    /\ UNCHANGED <<format_given, chat_examples, driverVars, cleanVars,
                   contextVars, splitVars, evalVars>>

\* create_chat_format(examples)
CreateChatFormat ==
    /\ format_pc = "chat"
    /\ chat_examples' = create_chat_format(format_given)
    /\ format_pc' = "done"
    /\ UNCHANGED <<format_given, alpaca_examples, driverVars, cleanVars,
                   contextVars, splitVars, evalVars>>

NextFormat == CreateAlpacaFormat \/ CreateChatFormat

SpecFormat == InitFormat /\ [][NextFormat]_vars

\* C12: both formatters return one record per example, in the order of the
\* examples: the Alpaca record is the instruction, input and output of the
\* example and nothing else, the Chat record is three messages with the
\* roles system, user and assistant whose user content is the instruction
\* and whose assistant content is the output.
C12_FormattersOneToOne ==
    format_pc = "done" =>
        /\ Len(alpaca_examples) = Len(format_given)
        /\ Len(chat_examples) = Len(format_given)
        /\ \A i \in DOMAIN format_given :
              /\ DOMAIN alpaca_examples[i] = {"instruction", "input", "output"}
              /\ alpaca_examples[i].instruction = format_given[i].instruction
              /\ alpaca_examples[i].input = format_given[i].input
              /\ alpaca_examples[i].output = format_given[i].output
              /\ DOMAIN chat_examples[i] = {"messages"}
              /\ Len(chat_examples[i].messages) = 3
              /\ chat_examples[i].messages[1].role = "system"
              /\ chat_examples[i].messages[2].role = "user"
              /\ chat_examples[i].messages[3].role = "assistant"
              /\ chat_examples[i].messages[2].content = format_given[i].instruction
              /\ chat_examples[i].messages[3].content = format_given[i].output

C12_Witness ==
    /\ format_pc = "done"
    /\ Len(format_given) = 2
    /\ format_given[1].instruction # format_given[2].instruction
    /\ format_given[1].output # format_given[2].output
    /\ alpaca_examples[2].output = format_given[2].output
    /\ chat_examples[1].messages[2].content = format_given[1].instruction

----------------------------------------------------------------------------
(* A call of create_statistics on any list of at most MaxExamples          *)
(* examples, the empty list included.                                      *)

InitStats ==
    /\ pc = "stats"
    /\ examples \in ExampleLists(MaxExamples)
    /\ min_emails = 0 /\ format = "both" /\ conn = "none" /\ cursor = "none"
    /\ emails = <<>> /\ files = <<>> /\ exit_status = NotExited
    /\ log = <<>> /\ query_raised = FALSE /\ exc = "none" /\ stats = <<>>
    /\ CleanIdle /\ ContextIdle /\ SplitIdle /\ FormatIdle /\ EvalIdle

NextStats == CreateStatistics

SpecStats == InitStats /\ [][NextStats]_vars

\* the forward markers `Fwd:` and `FW:`
ForwardMarkers == {<<"F", "w", "d", ":">>, <<"F", "W", ":">>}

\* the examples whose subject begins with one of the markers
WithMarker(markers) ==
    {i \in DOMAIN examples :
        \E p \in markers : StartsWith(examples[i].metadata.subject, p)}

OutputLengths == {Len(examples[i].output) : i \in DOMAIN examples}

\* C14: for a non-empty list create_statistics counts every example as
\* exactly one of reply (subject begins with `Re:` or `RE:`), forward
\* (subject begins with `Fwd:` or `FW:`) or new: the three counts are not
\* negative and add up to total_examples, which is the length of the list,
\* and the minimum, average and maximum length are in this order.
C14_StatisticsClassify ==
    Called("create_statistics") /\ examples # <<>> =>
        /\ exc = "none"
        /\ stats.total_examples = Len(examples)
        /\ stats.reply_emails = Cardinality(WithMarker(ReplyMarkers))
        /\ stats.forward_emails = Cardinality(WithMarker(ForwardMarkers))
        /\ WithMarker(ReplyMarkers) \cap WithMarker(ForwardMarkers) = {}
        /\ stats.reply_emails + stats.forward_emails + stats.new_emails
              = stats.total_examples
        /\ stats.reply_emails >= 0
        /\ stats.forward_emails >= 0
        /\ stats.new_emails >= 0
        /\ stats.min_email_length <= stats.avg_email_length
        /\ stats.avg_email_length <= stats.max_email_length
        /\ \A n \in OutputLengths :
              stats.min_email_length <= n /\ n <= stats.max_email_length

C14_Witness ==
    /\ Called("create_statistics")
    /\ Len(examples) = 2
    /\ stats.reply_emails = 1
    /\ stats.forward_emails = 1
    /\ stats.new_emails = 0
    /\ stats.min_email_length = 50
    /\ stats.avg_email_length = 51
    /\ stats.max_email_length = 53

\* C15: on an empty list create_statistics returns an empty dict and raises
\* nothing.
C15_EmptyStatistics ==
    Called("create_statistics") /\ examples = <<>> =>
        /\ exc = "none"
        /\ DOMAIN stats = {}
        /\ pc = "save_alpaca"

C15_Witness ==
    /\ log = <<"create_statistics">>
    /\ examples = <<>>
    /\ stats = <<>>
    /\ exc = "none"

----------------------------------------------------------------------------
(* evaluate-model.py: ModelEvaluator and its main().  config is the        *)
(* training_config.json of the adapter directory: whether it exists,       *)
(* whether json.load accepts it, and the dict it holds.  A model name is a *)
(* text; base_model and arg_base_model are a name or None.                 *)

ModelNames == {<<"A">>, <<"B">>}

\* the dicts a training_config.json holds: without the key base_model, or
\* with it as null, an empty text or a name
ConfigDicts ==
    {[lora_r |-> 16]}
    \cup {[lora_r |-> 16, base_model |-> v] : v \in {None, <<>>} \cup ModelNames}

Configs ==
    {[exists |-> FALSE, valid |-> TRUE, content |-> [lora_r |-> 16]],
     [exists |-> TRUE, valid |-> FALSE, content |-> [lora_r |-> 16]]}
    \cup {[exists |-> TRUE, valid |-> TRUE, content |-> d] : d \in ConfigDicts}

\* ModelEvaluator.__init__(model_path, base_model, use_4bit): self.base_model
\* and the exception that leaves the constructor, if any
ModelEvaluator(cfg, given) ==
    LET resolved == IF cfg.exists
                    THEN Get(cfg.content, "base_model", None)
                    ELSE given
    IN  IF cfg.exists /\ ~cfg.valid
        THEN [base_model |-> None, exc |-> "JSONDecodeError"]
        ELSE IF Falsy(resolved)
             THEN [base_model |-> resolved, exc |-> "SystemExit"]
             ELSE [base_model |-> resolved, exc |-> "none"]

InitEval ==
    /\ config \in Configs
    /\ arg_base_model \in {None} \cup ModelNames
    /\ use_4bit \in BOOLEAN
    /\ base_model = None
    /\ model = None
    /\ eval_pc = "init"
    /\ eval_exc = "none"
    /\ eval_exit_status = NotExited
    /\ DriverIdle /\ CleanIdle /\ ContextIdle /\ SplitIdle /\ FormatIdle

\* evaluator = ModelEvaluator(model_path=..., base_model=args.base_model, ...)
NewEvaluator ==
    /\ eval_pc = "init"
    /\ LET r == ModelEvaluator(config, arg_base_model)
       IN  /\ base_model' = r.base_model
           /\ eval_exc' = r.exc
           /\ eval_pc' = IF r.exc = "none" THEN "load_model" ELSE "exit"
    /\ UNCHANGED <<config, arg_base_model, use_4bit, model, eval_exit_status,
                   driverVars, cleanVars, contextVars, splitVars, formatVars>>

\* evaluator.load_model(): the base model named self.base_model is loaded,
\* with the adapters on top, or from_pretrained raises
LoadModel ==
    /\ eval_pc = "load_model"
    /\ \E ok \in BOOLEAN :
          IF ok
          THEN /\ model' = [base |-> base_model, four_bit |-> use_4bit]
               /\ eval_pc' = "load_test_prompts"
               /\ UNCHANGED eval_exc
          ELSE /\ eval_exc' = "OSError"
               /\ eval_pc' = "exit"
               /\ UNCHANGED model
    /\ UNCHANGED <<config, arg_base_model, use_4bit, base_model,
                   eval_exit_status, driverVars, cleanVars, contextVars,
                   splitVars, formatVars>>

\* test_prompts = load_test_prompts(args.test_data)
LoadTestPrompts ==
    /\ eval_pc = "load_test_prompts"
    /\ \E ok \in BOOLEAN :
          IF ok
          THEN eval_pc' = "evaluate" /\ UNCHANGED eval_exc
          ELSE eval_exc' = "OSError" /\ eval_pc' = "exit"
    /\ UNCHANGED <<config, arg_base_model, use_4bit, base_model, model,
                   eval_exit_status, driverVars, cleanVars, contextVars,
                   splitVars, formatVars>>

\* results = evaluator.evaluate_prompts(test_prompts), save_results and the
\* closing messages
EvaluateAndSave ==
    /\ eval_pc = "evaluate"
    /\ eval_pc' = "exit"
    /\ UNCHANGED <<config, arg_base_model, use_4bit, base_model, model,
                   eval_exc, eval_exit_status, driverVars, cleanVars,
                   contextVars, splitVars, formatVars>>

\* the process ends
EvalExit ==
    /\ eval_pc = "exit"
    /\ eval_exit_status' = ExitCode(eval_exc)
    /\ eval_pc' = "done"
    /\ UNCHANGED <<config, arg_base_model, use_4bit, base_model, model,
                   eval_exc, driverVars, cleanVars, contextVars, splitVars,
                   formatVars>>

NextEval ==
    \/ NewEvaluator
    \/ LoadModel
    \/ LoadTestPrompts
    \/ EvaluateAndSave
    \/ EvalExit

SpecEval == InitEval /\ [][NextEval]_vars

\* the base model the training_config.json names, or None
ConfigBaseModel ==
    IF config.exists /\ config.valid
    THEN Get(config.content, "base_model", None)
    ELSE None

\* C19: a base model given with --base-model is the one the evaluator uses,
\* the one of training_config.json is used only when none is given, and the
\* constructor exits only when neither names a base model.
C19_BaseModelResolution ==
    eval_pc # "init" /\ eval_exc # "JSONDecodeError" =>
        /\ ~Falsy(arg_base_model) => base_model = arg_base_model
        /\ Falsy(arg_base_model) /\ ~Falsy(ConfigBaseModel) =>
              base_model = ConfigBaseModel
        /\ eval_exc = "SystemExit" <=>
              Falsy(arg_base_model) /\ Falsy(ConfigBaseModel)
        /\ eval_pc \in {"load_test_prompts", "evaluate"} =>
              model.base = base_model

====
